---- MODULE Spec2Model ----
(***************************************************************************)
(* Model of the Robson CLI entry point (src/main.c): the thin router that  *)
(* translates a legacy flag in argv[1] to a modern subcommand, builds a    *)
(* new argument vector and replaces the process image with robson-go.      *)
(*                                                                         *)
(* C strings are sequences of one-character strings; a char* is either     *)
(* such a sequence or NULL.  Arrays are functions on 0..n, as in C.        *)
(***************************************************************************)
EXTENDS Integers, Sequences, FiniteSets, TLC

\* Largest argc explored.
MaxArgc == 4

\* The null pointer: a value different from every string.
NULL == <<"NULL">>
\* Content of a heap cell that malloc returned and nobody has written yet.
UNINIT == <<"UNINIT">>

\* String literals of the program.
DashHelp == <<"-","-","h","e","l","p">>
DashReport == <<"-","-","r","e","p","o","r","t">>
DashSay == <<"-","-","s","a","y">>
DashBuy == <<"-","-","b","u","y">>
DashSell == <<"-","-","s","e","l","l">>
Help == <<"h","e","l","p">>
Report == <<"r","e","p","o","r","t">>
Say == <<"s","a","y">>
Buy == <<"b","u","y">>
Sell == <<"s","e","l","l">>
RobsonGo == <<"r","o","b","s","o","n","-","g","o">>

\* Strings a caller may pass.
Robson == <<"r","o","b","s","o","n">>
Status == <<"s","t","a","t","u","s">>
DashStatus == <<"-","-","s","t","a","t","u","s">>
DashBu == <<"-","-","b","u">>
DashBuyx == <<"-","-","b","u","y","x">>
DashDash == <<"-","-">>
Empty == << >>
AAPL == <<"A","A","P","L">>
Ten == <<"1","0">>

\* Values tried for argv[1].
FirstArgs ==
  {DashHelp, DashReport, DashSay, DashBuy, DashSell,
   Help, Report, Say, Buy, Sell,
   Status, DashStatus, DashBu, DashBuyx, DashDash, Empty}

\* Values tried for argv[2..argc-1].
RestArgs == {AAPL, Ten, DashBuy, Status}

\* The argument vectors of length n the kernel can hand to main:
\* argv[0] is the invocation name and argv[argc] is a null pointer.
ArgVectors(n) ==
  { [k \in 0..n |-> IF k = 0 THEN Robson
                    ELSE IF k = n THEN NULL
                    ELSE IF k = 1 THEN a ELSE r[k]] :
      a \in FirstArgs, r \in [2..(n-1) -> RestArgs] }

VARIABLES
  pc,           \* position in main
  argc, argv,   \* the parameters of main
  new_argv,     \* contents of the block new_argv points to (<<>>: no block)
  heap,         \* "none", "failed", "live" or "freed": state of that block
  translated,   \* the local of that name
  i,            \* the loop variable
  writes,       \* the indices of new_argv written so far, in order
  execvp_calls, \* the calls of execvp made so far, with their arguments
  free_calls,   \* number of calls of free
  errno,        \* errno as execvp leaves it
  stdout, stderr,
  exit_status   \* <<>> while running or replaced, <<s>> after return s

vars == <<pc, argc, argv, new_argv, heap, translated, i, writes,
          execvp_calls, free_calls, errno, stdout, stderr, exit_status>>

\* strcmp, as far as the program observes it: 0 for equal strings and a
\* non-zero value otherwise (the program tests the result against 0 only).
RECURSIVE strcmp(_, _)
strcmp(a, b) ==
  IF a = << >> \/ b = << >>
    THEN (IF a = b THEN 0 ELSE 1)
    ELSE IF Head(a) # Head(b) THEN 1 ELSE strcmp(Tail(a), Tail(b))

\* A translator with a slip in its table: --sell is bound to "buy".
translate_slip(arg) ==
  IF strcmp(arg, DashHelp) = 0 THEN Help
  ELSE IF strcmp(arg, DashReport) = 0 THEN Report
  ELSE IF strcmp(arg, DashSay) = 0 THEN Say
  ELSE IF strcmp(arg, DashBuy) = 0 THEN Buy
  ELSE IF strcmp(arg, DashSell) = 0 THEN Buy
  ELSE NULL

translate_legacy_flag(arg) ==
  IF strcmp(arg, DashHelp) = 0 THEN Help
  ELSE IF strcmp(arg, DashReport) = 0 THEN Report
  ELSE IF strcmp(arg, DashSay) = 0 THEN Say
  ELSE IF strcmp(arg, DashBuy) = 0 THEN Buy
  ELSE IF strcmp(arg, DashSell) = 0 THEN Sell
  ELSE NULL

\* The condition of both copy loops, with the bound one too far.
LoopCondInclusive(k, n) == k <= n

LoopCond(k, n) == k < n

\* new_argv[idx] = val
Store(idx, val) ==
  /\ new_argv' = [new_argv EXCEPT ![idx] = val]
  /\ writes' = Append(writes, idx)

Init ==
  /\ pc = "START"
  /\ argc \in 1..MaxArgc
  /\ argv \in ArgVectors(argc)
  /\ new_argv = << >>
  /\ heap = "none"
  /\ translated = NULL
  /\ i = 0
  /\ writes = << >>
  /\ execvp_calls = << >>
  /\ free_calls = 0
  /\ errno = "0"
  /\ stdout = << >>
  /\ stderr = << >>
  /\ exit_status = << >>

BannerText ==
  <<"Welcome to Robson 0.01\n",
    "Usage: robson <subcommand> [options]\n",
    "Try: robson help\n">>

\* The banner path returning a failure status.
BannerFail ==
  /\ pc = "START"
  /\ argc < 2
  /\ stdout' = stdout \o BannerText
  /\ exit_status' = <<1>>
  /\ pc' = "EXIT_OK"
  /\ UNCHANGED <<argc, argv, new_argv, heap, translated, i, writes,
                 execvp_calls, free_calls, errno, stderr>>

\* argc < 2: print the banner, return 0.
Banner ==
  /\ pc = "START"
  /\ argc < 2
  /\ stdout' = stdout \o BannerText
  /\ exit_status' = <<0>>
  /\ pc' = "EXIT_OK"
  /\ UNCHANGED <<argc, argv, new_argv, heap, translated, i, writes,
                 execvp_calls, free_calls, errno, stderr>>

\* malloc(sizeof(char* ) * (argc + 1)) succeeds: argc + 1 unwritten cells.
MallocOk ==
  /\ pc = "START"
  /\ ~(argc < 2)
  /\ new_argv' = [k \in 0..argc |-> UNINIT]
  /\ heap' = "live"
  /\ pc' = "SET_NAME"
  /\ UNCHANGED <<argc, argv, translated, i, writes, execvp_calls,
                 free_calls, errno, stdout, stderr, exit_status>>

\* The allocation failure reported, but with a success status.
MallocFailOk ==
  /\ pc = "START"
  /\ ~(argc < 2)
  /\ heap' = "failed"
  /\ stderr' = Append(stderr, "Memory allocation failed\n")
  /\ exit_status' = <<0>>
  /\ pc' = "EXIT_FAIL"
  /\ UNCHANGED <<argc, argv, new_argv, translated, i, writes, execvp_calls,
                 free_calls, errno, stdout>>

\* malloc returns NULL: report and return 1.
MallocFail ==
  /\ pc = "START"
  /\ ~(argc < 2)
  /\ heap' = "failed"
  /\ stderr' = Append(stderr, "Memory allocation failed\n")
  /\ exit_status' = <<1>>
  /\ pc' = "EXIT_FAIL"
  /\ UNCHANGED <<argc, argv, new_argv, translated, i, writes, execvp_calls,
                 free_calls, errno, stdout>>

\* new_argv[0] = "robson-go"
SetName ==
  /\ pc = "SET_NAME"
  /\ Store(0, RobsonGo)
  /\ pc' = "TRANSLATE"
  /\ UNCHANGED <<argc, argv, heap, translated, i, execvp_calls, free_calls,
                 errno, stdout, stderr, exit_status>>

\* translated = translate_legacy_flag(argv[1]) and the branch on it; the
\* passthrough branch enters its loop with i = 1.
Translate ==
  /\ pc = "TRANSLATE"
  /\ translated' = translate_legacy_flag(argv[1])
  /\ IF translated' # NULL
       THEN pc' = "SET_SUB" /\ i' = i
       ELSE pc' = "COPY_PASS" /\ i' = 1
  /\ UNCHANGED <<argc, argv, new_argv, heap, writes, execvp_calls,
                 free_calls, errno, stdout, stderr, exit_status>>

\* The translated branch storing the original flag.
SetSubOriginal ==
  /\ pc = "SET_SUB"
  /\ Store(1, argv[1])
  /\ i' = 2
  /\ pc' = "COPY_TRANS"
  /\ UNCHANGED <<argc, argv, heap, translated, execvp_calls, free_calls,
                 errno, stdout, stderr, exit_status>>

\* The translated branch also rewriting the caller's vector in place.
SetSubInPlace ==
  /\ pc = "SET_SUB"
  /\ Store(1, translated)
  /\ argv' = [argv EXCEPT ![1] = translated]
  /\ i' = 2
  /\ pc' = "COPY_TRANS"
  /\ UNCHANGED <<argc, heap, translated, execvp_calls, free_calls,
                 errno, stdout, stderr, exit_status>>

\* new_argv[1] = translated, and the loop starts at i = 2.
SetSub ==
  /\ pc = "SET_SUB"
  /\ Store(1, translated)
  /\ i' = 2
  /\ pc' = "COPY_TRANS"
  /\ UNCHANGED <<argc, argv, heap, translated, execvp_calls, free_calls,
                 errno, stdout, stderr, exit_status>>

\* The loop of the translated branch translating every later flag too.
CopyTransEvery ==
  /\ pc = "COPY_TRANS"
  /\ LoopCond(i, argc)
  /\ Store(i, IF translate_legacy_flag(argv[i]) # NULL
                THEN translate_legacy_flag(argv[i]) ELSE argv[i])
  /\ i' = i + 1
  /\ UNCHANGED <<pc, argc, argv, heap, translated, execvp_calls, free_calls,
                 errno, stdout, stderr, exit_status>>

\* for (i = 2; i < argc; i++) new_argv[i] = argv[i];
CopyTrans ==
  /\ pc = "COPY_TRANS"
  /\ LoopCond(i, argc)
  /\ Store(i, argv[i])
  /\ i' = i + 1
  /\ UNCHANGED <<pc, argc, argv, heap, translated, execvp_calls, free_calls,
                 errno, stdout, stderr, exit_status>>

\* Loop exit of the translated branch and new_argv[argc] = NULL.
TermTrans ==
  /\ pc = "COPY_TRANS"
  /\ ~LoopCond(i, argc)
  /\ Store(argc, NULL)
  /\ pc' = "EXEC"
  /\ UNCHANGED <<argc, argv, heap, translated, i, execvp_calls, free_calls,
                 errno, stdout, stderr, exit_status>>

\* The passthrough loop copying from one position to the left.
CopyPassShifted ==
  /\ pc = "COPY_PASS"
  /\ LoopCond(i, argc)
  /\ Store(i, argv[i - 1])
  /\ i' = i + 1
  /\ UNCHANGED <<pc, argc, argv, heap, translated, execvp_calls, free_calls,
                 errno, stdout, stderr, exit_status>>

\* for (i = 1; i < argc; i++) new_argv[i] = argv[i];
CopyPass ==
  /\ pc = "COPY_PASS"
  /\ LoopCond(i, argc)
  /\ Store(i, argv[i])
  /\ i' = i + 1
  /\ UNCHANGED <<pc, argc, argv, heap, translated, execvp_calls, free_calls,
                 errno, stdout, stderr, exit_status>>

\* Loop exit of the passthrough branch and new_argv[argc] = NULL.
TermPass ==
  /\ pc = "COPY_PASS"
  /\ ~LoopCond(i, argc)
  /\ Store(argc, NULL)
  /\ pc' = "EXEC"
  /\ UNCHANGED <<argc, argv, heap, translated, i, execvp_calls, free_calls,
                 errno, stdout, stderr, exit_status>>

\* execvp("robson-go", new_argv) replaces the process image: nothing of
\* this program runs afterwards.
ExecReplaced ==
  /\ pc = "EXEC"
  /\ execvp_calls' = Append(execvp_calls, [file |-> RobsonGo, args |-> new_argv])
  /\ pc' = "REPLACED"
  /\ UNCHANGED <<argc, argv, new_argv, heap, translated, i, writes,
                 free_calls, errno, stdout, stderr, exit_status>>

\* execvp("robson-go", new_argv) returns: it failed and set errno.
ExecFailed ==
  /\ pc = "EXEC"
  /\ execvp_calls' = Append(execvp_calls, [file |-> RobsonGo, args |-> new_argv])
  /\ errno' \in {"ENOENT", "EACCES"}
  /\ pc' = "EXEC_FAILED"
  /\ UNCHANGED <<argc, argv, new_argv, heap, translated, i, writes,
                 free_calls, stdout, stderr, exit_status>>

\* What perror("Failed to execute robson-go") prints for an errno.
PerrorText(e) ==
  IF e = "ENOENT"
    THEN "Failed to execute robson-go: No such file or directory\n"
    ELSE "Failed to execute robson-go: Permission denied\n"

HintText == "Make sure robson-go is installed and in your PATH\n"

\* The failure reported and the replacement then tried again.
ReportErrorRetry ==
  /\ pc = "EXEC_FAILED"
  /\ stderr' = stderr \o <<PerrorText(errno), HintText>>
  /\ pc' = "EXEC"
  /\ UNCHANGED <<argc, argv, new_argv, heap, translated, i, writes,
                 execvp_calls, free_calls, errno, stdout, exit_status>>

\* perror(...); fprintf(stderr, ...);
ReportError ==
  /\ pc = "EXEC_FAILED"
  /\ stderr' = stderr \o <<PerrorText(errno), HintText>>
  /\ pc' = "FREE"
  /\ UNCHANGED <<argc, argv, new_argv, heap, translated, i, writes,
                 execvp_calls, free_calls, errno, stdout, exit_status>>

\* The failure path returning without the release.
FreeForgotten ==
  /\ pc = "FREE"
  /\ exit_status' = <<1>>
  /\ pc' = "EXIT_FAIL"
  /\ UNCHANGED <<argc, argv, new_argv, heap, free_calls, translated, i,
                 writes, execvp_calls, errno, stdout, stderr>>

\* free(new_argv); return 1;  The release writes nothing through new_argv.
Free ==
  /\ pc = "FREE"
  /\ heap' = "freed"
  /\ free_calls' = free_calls + 1
  /\ exit_status' = <<1>>
  /\ pc' = "EXIT_FAIL"
  /\ UNCHANGED <<argc, argv, new_argv, translated, i, writes, execvp_calls,
                 errno, stdout, stderr>>

Next ==
  \/ Banner
  \/ MallocOk
  \/ MallocFail
  \/ SetName
  \/ Translate
  \/ SetSub
  \/ CopyTrans
  \/ TermTrans
  \/ CopyPass
  \/ TermPass
  \/ ExecReplaced
  \/ ExecFailed
  \/ ReportError
  \/ Free

Spec == Init /\ [][Next]_vars

\* The program is the only thread of its process and none of its steps
\* blocks: whenever a step is possible, one is taken.
FairSpec == Spec /\ WF_vars(Next)


(***************************************************************************)
(* Vocabulary of the properties.                                           *)
(***************************************************************************)

LegacyFlags == {DashHelp, DashReport, DashSay, DashBuy, DashSell}

\* A string without its first two characters.
StripDashes(s) == SubSeq(s, 3, Len(s))

\* The flag translation table of the specification.
FlagTable ==
  (DashHelp :> Help) @@ (DashReport :> Report) @@ (DashSay :> Say) @@
  (DashBuy :> Buy) @@ (DashSell :> Sell)

ExecAttempted == Len(execvp_calls) > 0

\* The vector handed to execvp (meaningful once ExecAttempted).
Delegated == execvp_calls[1].args

Terminal == {"EXIT_OK", "REPLACED", "EXIT_FAIL"}

\* C1: when argv[1] is a legacy flag, the vector handed to execvp is
\* "robson-go", the flag without its leading "--", argv[2..argc-1]
\* unchanged, and the end marker at index argc; in particular
\* ["robson","--buy","AAPL","10"] gives ["robson-go","buy","AAPL","10",NULL].
C1_TranslatedVector ==
  (ExecAttempted /\ argv[1] \in LegacyFlags) =>
    /\ execvp_calls[1].file = RobsonGo
    /\ DOMAIN Delegated = 0..argc
    /\ Delegated[0] = RobsonGo
    /\ Delegated[1] = StripDashes(argv[1])
    /\ \A k \in 2..(argc - 1) : Delegated[k] = argv[k]
    /\ Delegated[argc] = NULL
    /\ (argv = (0 :> Robson) @@ (1 :> DashBuy) @@ (2 :> AAPL) @@ (3 :> Ten)
                 @@ (4 :> NULL)
          => Delegated = (0 :> RobsonGo) @@ (1 :> Buy) @@ (2 :> AAPL)
                           @@ (3 :> Ten) @@ (4 :> NULL))

C1_Witness ==
  /\ ExecAttempted
  /\ argc = 4 /\ argv[1] = DashBuy /\ argv[2] = AAPL /\ argv[3] = Ten
  /\ Delegated[1] = Buy /\ Delegated[3] = Ten

\* C2: when argv[1] is not a legacy flag, the vector handed to execvp is
\* "robson-go" followed by argv[1..argc-1] unchanged and the end marker at
\* index argc; in particular ["robson","status"] gives
\* ["robson-go","status",NULL].
C2_PassthroughVector ==
  (ExecAttempted /\ argv[1] \notin LegacyFlags) =>
    /\ execvp_calls[1].file = RobsonGo
    /\ DOMAIN Delegated = 0..argc
    /\ Delegated[0] = RobsonGo
    /\ \A k \in 1..(argc - 1) : Delegated[k] = argv[k]
    /\ Delegated[argc] = NULL
    /\ (argv = (0 :> Robson) @@ (1 :> Status) @@ (2 :> NULL)
          => Delegated = (0 :> RobsonGo) @@ (1 :> Status) @@ (2 :> NULL))

C2_Witness ==
  /\ ExecAttempted
  /\ argc = 2 /\ argv[1] = Status
  /\ Delegated[1] = Status

\* C3 as stated: at every user-argument position the delegated element is
\* the bare subcommand name when the argument is a legacy flag and the
\* argument itself otherwise.
C3_EveryPositionRewritten ==
  ExecAttempted =>
    \A k \in 1..(argc - 1) :
      Delegated[k] = IF argv[k] \in LegacyFlags
                       THEN FlagTable[argv[k]] ELSE argv[k]

\* C3 amended: only position 1 is rewritten, to the bare subcommand name,
\* when argv[1] is a legacy flag; every other user argument, a legacy flag
\* at a position from 2 on included, is passed through unchanged.
C3_OnlyFirstRewritten ==
  ExecAttempted =>
    \A k \in 1..(argc - 1) :
      Delegated[k] = IF k = 1 /\ argv[1] \in LegacyFlags
                       THEN FlagTable[argv[1]] ELSE argv[k]

C3_Witness ==
  /\ ExecAttempted
  /\ argc = 3 /\ argv[1] = DashSell /\ argv[2] = DashBuy
  /\ Delegated[1] = Sell /\ Delegated[2] = DashBuy

\* C4: with argc < 2 the run prints the banner and returns 0, and no
\* vector is allocated or written and execvp is never called.
C4_BannerOnly ==
  argc < 2 =>
    /\ pc \in {"START", "EXIT_OK"}
    /\ heap = "none" /\ new_argv = << >> /\ writes = << >>
    /\ ~ExecAttempted /\ free_calls = 0
    /\ stderr = << >>
    /\ (pc = "START" => stdout = << >> /\ exit_status = << >>)
    /\ (pc = "EXIT_OK" => stdout = BannerText /\ exit_status = <<0>>)

C4_Witness ==
  argc < 2 /\ pc = "EXIT_OK" /\ exit_status = <<0>> /\ Len(stdout) = 3

\* C5: after a failed execvp the run reports on stderr, calls free on the
\* vector exactly once and returns 1; free is called on no other path.
C5_ReleaseOnExecFailure ==
  /\ (pc = "EXIT_FAIL" /\ ExecAttempted) =>
       /\ Len(stderr) = 2 /\ stdout = << >>
       /\ stderr[1] \in {PerrorText("ENOENT"), PerrorText("EACCES")}
       /\ stderr[2] = HintText
       /\ free_calls = 1 /\ heap = "freed"
       /\ exit_status = <<1>>
  /\ (free_calls > 0 \/ heap = "freed") =>
       /\ pc = "EXIT_FAIL" /\ ExecAttempted /\ errno # "0"
       /\ free_calls = 1
  /\ (pc \in {"EXIT_OK", "REPLACED"} \/ heap = "failed") => free_calls = 0

C5_Witness ==
  /\ pc = "EXIT_FAIL" /\ ExecAttempted /\ errno = "ENOENT"
  /\ free_calls = 1 /\ heap = "freed" /\ exit_status = <<1>>

\* C6: when malloc fails the run reports on stderr and returns 1, having
\* written no element, called execvp or called free.
C6_AllocationFailure ==
  heap = "failed" =>
    /\ pc = "EXIT_FAIL"
    /\ stderr = <<"Memory allocation failed\n">> /\ stdout = << >>
    /\ exit_status = <<1>>
    /\ writes = << >> /\ new_argv = << >>
    /\ ~ExecAttempted /\ free_calls = 0

C6_Witness ==
  heap = "failed" /\ pc = "EXIT_FAIL" /\ argc = 3 /\ exit_status = <<1>>

\* C7: translate_legacy_flag(argv[1]) is the table's entry for the five
\* legacy flags and NULL for every other string (modern names and unknown
\* flags included), and its non-NULL results translate to NULL.
C7_Translator ==
  (pc \notin {"START", "SET_NAME", "TRANSLATE"} /\ heap # "failed") =>
    /\ translated = IF argv[1] \in DOMAIN FlagTable
                      THEN FlagTable[argv[1]] ELSE NULL
    /\ (translated # NULL => translate_legacy_flag(translated) = NULL)

C7_Witness ==
  pc = "SET_SUB" /\ argv[1] = DashSell /\ translated = Sell

\* The states of the state machine of the specification.  Allocation and
\* the store of new_argv[0] come before the translation and are counted
\* with START.
Stage(p) ==
  CASE p \in {"START", "SET_NAME"} -> "START"
    [] p \in {"TRANSLATE", "SET_SUB"} -> "TRANSLATE"
    [] p \in {"COPY_TRANS", "COPY_PASS"} -> "BUILD_VECTOR"
    [] p = "FREE" -> "REPORT_ERROR"
    [] OTHER -> p

StageEdges ==
  {<<"START", "EXIT_OK">>, <<"START", "EXIT_FAIL">>, <<"START", "TRANSLATE">>,
   <<"TRANSLATE", "BUILD_VECTOR">>, <<"BUILD_VECTOR", "EXEC">>,
   <<"EXEC", "REPLACED">>, <<"EXEC", "EXEC_FAILED">>,
   <<"EXEC_FAILED", "REPORT_ERROR">>, <<"REPORT_ERROR", "EXIT_FAIL">>}

C8_Outcomes ==
  /\ (pc = "EXIT_OK" => argc < 2 /\ exit_status = <<0>>)
  /\ (pc = "EXIT_FAIL" =>
        /\ exit_status = <<1>>
        /\ (heap = "failed" /\ ~ExecAttempted) \/ (ExecAttempted /\ errno # "0"))
  /\ (pc = "REPLACED" => ExecAttempted /\ exit_status = << >> /\ errno = "0")
  /\ (exit_status # << >> <=> pc \in {"EXIT_OK", "EXIT_FAIL"})
  /\ (pc = "EXEC" =>
        /\ argc >= 2 /\ heap = "live"
        /\ translated = translate_legacy_flag(argv[1])
        /\ \A k \in 0..argc : new_argv[k] # UNINIT
        /\ new_argv[argc] = NULL)
  /\ Len(execvp_calls) <= 1

\* C8: every run follows the state machine, EXIT_OK only with argc < 2,
\* EXIT_FAIL only after a failed allocation or a failed execvp, EXEC only
\* with argc >= 2 and a translated, complete, terminated vector; a terminal
\* state is never left, and every run reaches one.
C8_StateMachine ==
  /\ []C8_Outcomes
  /\ [][/\ pc \notin Terminal
        /\ (Stage(pc') = Stage(pc) \/ <<Stage(pc), Stage(pc')>> \in StageEdges)]_vars
  /\ <>(pc \in Terminal)

C8_Witness ==
  pc = "EXIT_FAIL" /\ ExecAttempted /\ translated = Buy /\ argc = 3

\* C9: no step changes argc or argv, no step taken after the end marker
\* was written changes an element of new_argv, and the vector at and after
\* the execvp call is the vector as constructed.
C9_Immutable ==
  /\ [][/\ argv' = argv /\ argc' = argc
        /\ (pc \in {"EXEC", "EXEC_FAILED", "FREE"} \union Terminal
              => new_argv' = new_argv /\ writes' = writes)]_vars
  /\ [](ExecAttempted => Delegated = new_argv)

C9_Witness ==
  /\ pc = "EXIT_FAIL" /\ heap = "freed" /\ argc = 4
  /\ ExecAttempted /\ Delegated = new_argv /\ new_argv[1] = Help

\* Number of stores to new_argv[k] so far.
WritesTo(k) == Cardinality({j \in 1..Len(writes) : writes[j] = k})

\* C10: only indices 0..argc are ever written; at the execvp call each of
\* them has been written exactly once, the end marker is at index argc and
\* at no smaller index.
C10_EachIndexOnce ==
  /\ \A j \in 1..Len(writes) : writes[j] \in 0..argc
  /\ (pc = "EXEC" \/ ExecAttempted) =>
       /\ DOMAIN new_argv = 0..argc
       /\ \A k \in 0..argc : WritesTo(k) = 1
       /\ Len(writes) = argc + 1
       /\ new_argv[argc] = NULL
       /\ \A k \in 0..(argc - 1) : new_argv[k] # NULL /\ new_argv[k] # UNINIT

C10_Witness ==
  /\ pc = "EXEC" /\ argc = 4 /\ translated = NULL
  /\ writes = <<0, 1, 2, 3, 4>>

====
